---- MODULE Spec2Model ----
\* Position lifecycle and order reconciliation of the trading bot:
\* MovingAverageCrossoverML.run (src/bot.py) driving OrderManager
\* (src/src/order_manager.py) against an unreliable exchange client.
\*
\* Numbers: ticker prices are integers; order sizes and thresholds are exact
\* rationals [n, d] (the source uses floats; rounding is not modelled).
\* Strings that the code rewrites (symbols) are sequences of characters.
EXTENDS Integers, Sequences, FiniteSets, TLC

\* ------------------------------------------------------- configuration
\* config['symbols'] (two instruments, as character sequences).
symbols ==
    << <<"B", "-", "U", "S", "D">>, <<"E", "-", "U", "S", "D">> >>

\* config['leverage'], config['sl_percentage'], config['tp_percentage'] and the
\* configured config['investment_amount'] (small values; at price 110 the
\* order size falls below 1 and place_order corrects the investment).
leverage == 5
sl_percentage == 10
tp_percentage == 10
initial_investment_amount == 20

\* range(3) of the open loop and of the close loop, and their time.sleep(5).
OpenAttempts == 3
CloseAttempts == 3
OpenBackoff == 5
CloseBackoff == 5

\* What the exchange may answer to fetch_ticker(...)['last'].
Prices == {99, 110}

\* ------------------------------------------------------------ rationals
RECURSIVE GCD(_, _)
GCD(a, b) == IF b = 0 THEN a ELSE GCD(b, a % b)

\* n / d with d > 0, n >= 0, in lowest terms (equal values are equal records).
Rat(n, d) == [n |-> n \div GCD(n, d), d |-> d \div GCD(n, d)]
ToRat(i) == [n |-> i, d |-> 1]
Leq(a, b) == a.n * b.d <= b.n * a.d
Less(a, b) == a.n * b.d < b.n * a.d

\* math.ceil(a / b) for positive integers.
Ceil(a, b) == (a + b - 1) \div b

\* --------------------------------------------------------------- strings
\* str.replace(old, new): left to right, non-overlapping.
RECURSIVE Replace(_, _, _)
Replace(s, old, new) ==
    IF Len(s) < Len(old) THEN s
    ELSE IF SubSeq(s, 1, Len(old)) = old
         THEN new \o Replace(SubSeq(s, Len(old) + 1, Len(s)), old, new)
         ELSE <<Head(s)>> \o Replace(Tail(s), old, new)

format_symbol(symbol) ==
    Replace(Replace(symbol, <<"-">>, <<"/">>),
            <<"U", "S", "D">>,
            <<"U", "S", "D", "T", ":", "U", "S", "D", "T">>)

\* ------------------------------------------------------------- sequences
Range(s) == {s[i] : i \in 1..Len(s)}

\* list.remove(x): drops the first element equal to x (the caller checks x is in s).
RECURSIVE RemoveFirst(_, _)
RemoveFirst(s, x) ==
    IF s = <<>> THEN <<>>
    ELSE IF Head(s) = x THEN Tail(s)
    ELSE <<Head(s)>> \o RemoveFirst(Tail(s), x)

\* next((order for order in open_orders if order['symbol'] == fs), None):
\* <<>> for None, <<order>> for the first match.
RECURSIVE FirstFor(_, _)
FirstFor(orders, fs) ==
    IF orders = <<>> THEN <<>>
    ELSE IF Head(orders).symbol = fs THEN <<Head(orders)>>
    ELSE FirstFor(Tail(orders), fs)

\* ------------------------------------------- OrderManager: pure parts
\* A signal is <<1>> (BUY), <<0>> (SELL) or <<>> (None); likewise an optional
\* order is <<order>> or <<>>.
BUY == <<1>>
SELL == <<0>>
None == <<>>

\* Mutant of the side: the two sides swapped.
SideOf_Swapped(signal) == IF signal = BUY THEN "sell" ELSE "buy"

\* side = 'buy' if signal == 1 else 'sell'
SideOf(signal) == IF signal = BUY THEN "buy" ELSE "sell"

\* Mutant of the pre-check: only the first order of the list is looked at.
HasSameDirection_FirstOnly(orders, fs, signal) ==
    /\ orders # <<>>
    /\ orders[1].symbol = fs
    /\ \/ (signal = BUY /\ orders[1].direction = "buy")
       \/ (signal = SELL /\ orders[1].direction = "sell")

\* Mutant of the pre-check: it never finds the order (as when it compares the
\* stored symbols with the unformatted one).
HasSameDirection_NeverFound(orders, fs, signal) == FALSE

\* place_order's pre-check: some open order has this symbol and the signal's direction.
HasSameDirection(orders, fs, signal) ==
    \E i \in 1..Len(orders) :
        /\ orders[i].symbol = fs
        /\ \/ (signal = BUY /\ orders[i].direction = "buy")
           \/ (signal = SELL /\ orders[i].direction = "sell")

\* Mutant of the conflict test: direction != signal, a string against a number,
\* which is always true.
Conflicts_TypeMismatch(order, signal) == TRUE

\* run's test for a conflicting signal.
Conflicts(order, signal) ==
    \/ (order.direction = "buy" /\ signal = SELL)
    \/ (order.direction = "sell" /\ signal = BUY)

\* place_order's arithmetic for any configuration: lev, sl and tp stand for
\* config['leverage'], config['sl_percentage'] and config['tp_percentage'].
\* order_size = (investment_amount * leverage) / current_price
SizeWith(inv, lev, price) == Rat(inv * lev, price)

\* Mutant of the correction: the quotient is rounded down.
AdjustWith_Floor(inv, lev, price) ==
    IF Less(SizeWith(inv, lev, price), ToRat(1)) THEN price \div lev ELSE inv

\* The investment_amount after the one-shot correction of place_order.
AdjustWith(inv, lev, price) ==
    IF Less(SizeWith(inv, lev, price), ToRat(1)) THEN Ceil(price, lev) ELSE inv

\* Mutant of the stop-loss: the LONG formula for both sides.
StopLossWith_LongOnly(side, price, sl) == Rat(price * (100 - sl), 100)

\* current_price * (1 - sl/100) for a buy, current_price * (1 + sl/100) for a sell.
StopLossWith(side, price, sl) ==
    IF side = "buy" THEN Rat(price * (100 - sl), 100)
    ELSE Rat(price * (100 + sl), 100)

\* current_price * (1 + tp/100) for a buy, current_price * (1 - tp/100) for a sell.
TakeProfitWith(side, price, tp) ==
    IF side = "buy" THEN Rat(price * (100 + tp), 100)
    ELSE Rat(price * (100 - tp), 100)

\* The dict place_order appends to open_orders.
NewOrderWith(fs, side, inv, price, lev, sl, tp) ==
    [symbol |-> fs, direction |-> side, order_size |-> SizeWith(inv, lev, price),
     entry_price |-> price, stop_loss_price |-> StopLossWith(side, price, sl),
     take_profit_price |-> TakeProfitWith(side, price, tp)]

\* The same under the configuration of this model.
OrderSize(inv, price) == SizeWith(inv, leverage, price)

AdjustedInvestment(inv, price) == AdjustWith(inv, leverage, price)

StopLoss(side, price) == StopLossWith(side, price, sl_percentage)

TakeProfit(side, price) == TakeProfitWith(side, price, tp_percentage)

NewOrder(fs, side, inv, price) ==
    NewOrderWith(fs, side, inv, price, leverage, sl_percentage, tp_percentage)

\* Mutant of the exit test: strict comparisons.
ShouldClose_Strict(order, current_price) ==
    IF order.direction = "buy"
    THEN \/ Less(ToRat(current_price), order.stop_loss_price)
         \/ Less(order.take_profit_price, ToRat(current_price))
    ELSE \/ Less(order.stop_loss_price, ToRat(current_price))
         \/ Less(ToRat(current_price), order.take_profit_price)

\* monitor_trades' exit test for one order at current_price.
ShouldClose(order, current_price) ==
    IF order.direction = "buy"
    THEN \/ Leq(ToRat(current_price), order.stop_loss_price)
         \/ Leq(order.take_profit_price, ToRat(current_price))
    ELSE \/ Leq(order.stop_loss_price, ToRat(current_price))
         \/ Leq(ToRat(current_price), order.take_profit_price)

\* calculate_profit_percentage works on floats that may be negative.
SRat(n, d) ==
    IF n < 0 THEN [n |-> 0 - Rat(0 - n, d).n, d |-> Rat(0 - n, d).d] ELSE Rat(n, d)

\* Mutant of the profit: the LONG formula for both directions.
calculate_profit_percentage_LongOnly(entry_price, current_price, direction) ==
    SRat((current_price - entry_price) * 100, entry_price)

\* ((current - entry) / entry) * 100 for a buy, ((entry - current) / entry) * 100
\* otherwise.
calculate_profit_percentage(entry_price, current_price, direction) ==
    IF direction = "buy"
    THEN SRat((current_price - entry_price) * 100, entry_price)
    ELSE SRat((entry_price - current_price) * 100, entry_price)

\* ------------------------------------------------ the exchange's answers
\* fetch_ticker: raises, or returns a ticker whose 'last' is a price or None.
TickerResults ==
    {[raised |-> TRUE, last |-> <<>>], [raised |-> FALSE, last |-> <<>>]}
        \cup {[raised |-> FALSE, last |-> <<p>>] : p \in Prices}

\* create_order: returns (the order is acknowledged), raises before the
\* exchange took the order, or raises after the exchange accepted it (a timeout
\* of the reply: "lost").
CreateResults == {"ack", "raise", "lost"}

\* log_trade (open(..., 'a') and csv write): appends the row or raises.
LogResults == {"ok", "raise"}

\* What one pass of the symbol loop gets from data fetch, preprocessing,
\* training and prediction (bot.py lines 79-107).
SignalResults ==
    {"no_data", "preprocess_failed", "train_failed", "predict_none", "buy", "sell"}

\* Mutant of the acquisition: no outcome makes the pass skip the symbol.
HasSignal_Always(res) == TRUE

\* The pass reaches the reconciliation (bot.py 109) only with a prediction:
\* every other outcome ends in a continue.
HasSignal(res) == res \in {"buy", "sell"}

\* ----------------------------------------------------------------- state
VARIABLES
    pc,                \* where run() is: acquire, reconcile, place_order, open, close, monitor, aborted
    symIdx,            \* position of the symbol loop in symbols
    new_signal,        \* run's new_signal
    open_orders,       \* OrderManager.open_orders (the Ledger)
    investment_amount, \* config['investment_amount'] (mutated by place_order)
    trained,           \* the classifier has its n_features_ attribute
    closing,           \* close_order's order argument (its current_price is only logged)
    caller,            \* who called close_order: "run" or "monitor"
    opening,           \* place_order's locals once computed: the order to append
    attempt,           \* loop variable of the retry loop in progress
    snapshot,          \* monitor_trades' copy open_orders[:]
    monIdx,            \* position of monitor_trades' loop in snapshot
    oid_second,        \* int(time.time()) is still the number in the client_oid
                       \* of the latest open operation
    \* history, written but never read by the program
    lastCall,          \* the exchange call made by the latest step, if any
    op,                \* the open/close operation in progress or just finished
    recon,             \* the reconciliation of the current symbol
    mon,               \* the exit check of the current snapshot order
    reopened,          \* this cycle: orders still open whose symbol got an open order
                       \* submitted after their conflict was found
    \* one component on its own (QuoteSpec, ProfitSpec, SourceSpec)
    calc               \* the inputs of a call and, once computed, its results

progVars ==
    <<pc, symIdx, new_signal, open_orders, investment_amount, trained,
      closing, caller, opening, attempt, snapshot, monIdx, oid_second>>
histVars == <<lastCall, op, recon, mon, reopened>>
vars == <<progVars, histVars, calc>>

NoCall ==
    [kind |-> "none", symbol |-> <<>>, side |-> "", reduceOnly |-> FALSE,
     ok |-> FALSE, order |-> <<>>]
TickerCall(fs, r) ==
    [kind |-> "fetch_ticker", symbol |-> fs, side |-> "", reduceOnly |-> FALSE,
     ok |-> ~r.raised, order |-> <<>>]
CreateCall(fs, side, reduceOnly, res, order) ==
    [kind |-> "create_order", symbol |-> fs, side |-> side, reduceOnly |-> reduceOnly,
     ok |-> (res = "ack"), order |-> order]

\* price: the ticker price an open fetched; oidReused: its client_oid is the
\* one of the open operation before it; accepted: orders of the operation the
\* exchange accepted; sent: the parameters of its create_order calls.
NoOp ==
    [kind |-> "none", done |-> FALSE, calls |-> 0, acks |-> 0, rows |-> 0,
     at |-> <<>>, clock |-> 0, before |-> <<>>, order |-> <<>>,
     price |-> <<>>, oidReused |-> FALSE, accepted |-> 0, sent |-> {}]
StartOp(kind, order) ==
    [kind |-> kind, done |-> FALSE, calls |-> 0, acks |-> 0, rows |-> 0,
     at |-> <<>>, clock |-> 0, before |-> open_orders, order |-> order,
     price |-> <<>>, oidReused |-> FALSE, accepted |-> 0, sent |-> {}]

\* close, once close_order has returned: "closed", "failed" (every create_order
\* raised) or "failed_acked" (given up although the exchange acknowledged one).
\* source: the outcome of the acquisition; symbol: the formatted symbol;
\* openTickerFailed: place_order's ticker fetch raised or had no price.
NoRecon ==
    [signal |-> None, source |-> "", symbol |-> <<>>, existing |-> <<>>,
     conflict |-> FALSE, close |-> "none",
     tickers |-> 0, openTicker |-> FALSE, openTickerFailed |-> FALSE,
     openSubmitted |-> FALSE, closeSubmitted |-> FALSE, before |-> <<>>]

NoMon == [order |-> <<>>, price |-> <<>>, invoked |-> FALSE]

NoCalc == [done |-> FALSE]

\* The bot and its OrderManager as constructed.
Constructed ==
    /\ pc = "acquire"
    /\ symIdx = 1
    /\ new_signal = None
    /\ open_orders = <<>>
    /\ investment_amount = initial_investment_amount
    /\ trained = FALSE
    /\ closing = <<>>
    /\ caller = "none"
    /\ opening = <<>>
    /\ attempt = 0
    /\ snapshot = <<>>
    /\ monIdx = 1
    /\ oid_second = FALSE
    /\ lastCall = NoCall
    /\ op = NoOp
    /\ recon = NoRecon
    /\ mon = NoMon
    /\ reopened = {}

Init ==
    /\ Constructed
    /\ calc = NoCalc

\* ------------------------------------------------------------- the clock
\* Between two readings of time.time() the clock's second may or may not change.
ClockMayTick == \E tick \in BOOLEAN : oid_second' = (oid_second /\ ~tick)

\* After a time.sleep of 5 seconds or of the check interval it has changed.
ClockTicks == oid_second' = FALSE

\* ------------------------------------------------------------- control
\* Mutant of the symbol loop: it ends after its first symbol.
LastSymbol_First(i) == i >= 1

\* for symbol in self.symbols: the symbol at position i is the last one.
LastSymbol(i) == i >= Len(symbols)

\* The symbol loop moves on: to the next symbol, or after the last one to
\* monitor_trades, which starts by copying the list (open_orders[:]).
NextSymbol(orders) ==
    /\ new_signal' = None
    /\ closing' = <<>>
    /\ caller' = "none"
    /\ opening' = <<>>
    /\ attempt' = 0
    /\ IF ~LastSymbol(symIdx)
       THEN /\ pc' = "acquire"
            /\ symIdx' = symIdx + 1
            /\ UNCHANGED <<snapshot, monIdx>>
       ELSE /\ pc' = "monitor"
            /\ symIdx' = 1
            /\ snapshot' = orders
            /\ monIdx' = 1

\* An uncaught exception leaves run(): the process ends.
Abort ==
    /\ pc' = "aborted"
    /\ UNCHANGED <<symIdx, new_signal, closing, caller, opening, attempt, snapshot, monIdx>>

\* --------------------------------------------------- bot.py: run, 75-109
\* One pass of the symbol loop up to the prediction. The driver trains whenever
\* the Model wrapper lacks n_features_, an attribute only the classifier inside
\* it ever gets, so train_model is called on every pass.
AcquireSignal ==
    /\ pc = "acquire"
    /\ \E res \in SignalResults :
        /\ trained' = (trained \/ res \in {"predict_none", "buy", "sell"})
        /\ IF HasSignal(res)
           THEN /\ new_signal' = (IF res = "buy" THEN BUY ELSE SELL)
                /\ pc' = "reconcile"
                /\ UNCHANGED <<symIdx, closing, caller, opening, attempt, snapshot, monIdx>>
           ELSE NextSymbol(open_orders)
        /\ recon' = [NoRecon EXCEPT !.signal = IF res = "buy" THEN BUY
                                               ELSE IF res = "sell" THEN SELL ELSE None,
                                    !.source = res,
                                    !.symbol = format_symbol(symbols[symIdx]),
                                    !.before = open_orders]
    /\ lastCall' = NoCall
    /\ op' = NoOp
    /\ mon' = NoMon
    /\ ClockMayTick
    /\ UNCHANGED <<open_orders, investment_amount, reopened, calc>>

\* -------------------------------------------------- bot.py: run, 111-135
\* Look the symbol up in the Ledger. With an existing order: fetch the ticker
\* (outside any try), then close-and-reopen on a conflicting signal, nothing
\* otherwise. Without one: place_order.
Reconcile ==
    /\ pc = "reconcile"
    /\ LET fs == format_symbol(symbols[symIdx])
           existing_order == FirstFor(open_orders, fs)
       IN  IF existing_order = <<>>
           THEN /\ pc' = "place_order"
                /\ lastCall' = NoCall
                /\ op' = NoOp
                /\ UNCHANGED <<symIdx, new_signal, closing, caller, opening, attempt,
                               snapshot, monIdx, recon, reopened>>
           ELSE \E r \in TickerResults :
                /\ lastCall' = TickerCall(fs, r)
                /\ IF r.raised
                   THEN /\ Abort
                        /\ op' = NoOp
                        /\ recon' = [recon EXCEPT !.existing = existing_order, !.tickers = 1]
                        /\ UNCHANGED reopened
                   ELSE IF Conflicts(existing_order[1], new_signal)
                   THEN /\ pc' = "close"
                        /\ closing' = existing_order
                        /\ caller' = "run"
                        /\ attempt' = 0
                        /\ op' = StartOp("close", existing_order)
                        /\ recon' = [recon EXCEPT !.existing = existing_order,
                                                  !.tickers = 1, !.conflict = TRUE]
                        /\ UNCHANGED reopened
                        /\ UNCHANGED <<symIdx, new_signal, opening, snapshot, monIdx>>
                   ELSE /\ NextSymbol(open_orders)
                        /\ op' = NoOp
                        /\ recon' = [recon EXCEPT !.existing = existing_order, !.tickers = 1]
                        /\ UNCHANGED reopened
    /\ ClockMayTick
    /\ UNCHANGED <<open_orders, investment_amount, trained, mon, calc>>

\* Mutant of place_order's outer handler: the exception leaves place_order.
PlaceOrderExcept_Uncaught == Abort

\* The outer except of place_order (102-103): the error is logged and
\* place_order returns to run, which goes on with the next symbol.
PlaceOrderExcept == NextSymbol(open_orders)

\* ------------------------------------- order_manager.py: place_order, 35-70
\* The pre-check, the ticker fetch, sizing (with the in-place correction of
\* config['investment_amount']) and the thresholds. Any exception here is
\* caught by the outer except (102-103) and place_order returns.
PlaceOrder ==
    /\ pc = "place_order"
    /\ LET fs == format_symbol(symbols[symIdx])
       IN  IF new_signal = None \/ HasSameDirection(open_orders, fs, new_signal)
           THEN /\ NextSymbol(open_orders)
                /\ lastCall' = NoCall
                /\ op' = NoOp
                /\ ClockMayTick
                /\ UNCHANGED <<investment_amount, recon>>
           ELSE \E r \in TickerResults, tick \in BOOLEAN :
                /\ lastCall' = TickerCall(fs, r)
                /\ recon' = [recon EXCEPT !.tickers = @ + 1, !.openTicker = TRUE,
                                          !.openTickerFailed = (r.raised \/ r.last = <<>>)]
                /\ IF r.raised \/ r.last = <<>>
                   THEN /\ PlaceOrderExcept
                        /\ op' = NoOp
                        /\ oid_second' = (oid_second /\ ~tick)
                        /\ UNCHANGED investment_amount
                   ELSE LET inv == AdjustedInvestment(investment_amount, r.last[1])
                            order == NewOrder(fs, SideOf(new_signal), inv, r.last[1])
                        IN  /\ investment_amount' = inv
                            /\ opening' = <<order>>
                            /\ attempt' = 0
                            /\ pc' = "open"
                            /\ op' = [StartOp("open", <<order>>) EXCEPT
                                         !.price = r.last,
                                         !.oidReused = (oid_second /\ ~tick)]
                            /\ oid_second' = TRUE
                            /\ UNCHANGED <<symIdx, new_signal, closing, caller, snapshot, monIdx>>
    /\ UNCHANGED <<open_orders, trained, mon, reopened, calc>>

\* Mutant of the identifier: computed anew for every attempt.
ClientOid_PerAttempt(start, now) == now

\* client_oid = f"order_{int(time.time())}" is computed once, before the retry
\* loop: an attempt at second now of an operation begun at second start sends
\* the identifier of start.
ClientOid(start, now) == start

\* Mutant of the open loop: no retry after a failure.
OpenLoopEnds_NoRetry(res, i) == TRUE

\* Mutant of the open loop: one iteration short.
OpenLoopEnds_OffByOne(res, i) == res = "ack" \/ i + 2 >= OpenAttempts

\* The retry loop of place_order ends: break after an acknowledged order, or
\* range(3) is exhausted.
OpenLoopEnds(res, i) == res = "ack" \/ i + 1 >= OpenAttempts

\* time.sleep(5) in the except branch of place_order's loop.
OpenSleep(clock) == clock + OpenBackoff

\* ------------------------------------ order_manager.py: place_order, 71-101
\* One iteration of the retry loop: create_order (every iteration with the
\* client_oid computed before the loop), then append and break, or log, sleep
\* and continue. (show_open_trades after the append only logs: its
\* ticker fetches sit in their own try.)
OpenAttempt ==
    /\ pc = "open"
    /\ \E res \in CreateResults :
        LET order == opening[1]
            orders == IF res = "ack" THEN Append(open_orders, order) ELSE open_orders
            params == [clientOid |-> ClientOid(0, op.clock), side |-> order.direction,
                       amount |-> order.order_size, leverage |-> leverage]
            op1 == [op EXCEPT !.calls = @ + 1,
                              !.at = Append(@, op.clock),
                              !.acks = IF res = "ack" THEN @ + 1 ELSE @,
                              !.accepted = IF res \in {"ack", "lost"} THEN @ + 1 ELSE @,
                              !.sent = @ \cup {params},
                              !.clock = IF res = "ack" THEN @ ELSE OpenSleep(@)]
        IN  /\ lastCall' = CreateCall(order.symbol, order.direction, FALSE, res, <<>>)
            /\ recon' = [recon EXCEPT !.openSubmitted = TRUE]
            /\ reopened' = IF recon.conflict /\ recon.existing[1] \in Range(open_orders)
                            THEN reopened \cup {recon.existing[1]} ELSE reopened
            /\ open_orders' = orders
            /\ IF res = "ack" THEN ClockMayTick ELSE ClockTicks
            /\ IF OpenLoopEnds(res, attempt)
               THEN /\ NextSymbol(orders)
                    /\ op' = [op1 EXCEPT !.done = TRUE]
               ELSE /\ attempt' = attempt + 1
                    /\ op' = op1
                    /\ UNCHANGED <<pc, symIdx, new_signal, closing, caller, opening,
                                   snapshot, monIdx>>
    /\ UNCHANGED <<investment_amount, trained, mon, calc>>

\* Mutant of the close loop: one iteration short.
CloseLoopEnds_OffByOne(closed, i) == closed \/ i + 2 >= CloseAttempts

\* The retry loop of close_order ends: break after the order was closed, logged
\* and removed, or range(3) is exhausted.
CloseLoopEnds(closed, i) == closed \/ i + 1 >= CloseAttempts

\* time.sleep(5) in the except branch of close_order's loop.
CloseSleep(clock) == clock + CloseBackoff

\* close_order returns to run (which goes on to place_order) or to monitor_trades.
CloseReturn ==
    /\ closing' = <<>>
    /\ caller' = "none"
    /\ attempt' = 0
    /\ IF caller = "run"
       THEN /\ pc' = "place_order"
            /\ UNCHANGED monIdx
       ELSE /\ pc' = "monitor"
            /\ monIdx' = monIdx + 1
    /\ UNCHANGED <<symIdx, new_signal, opening, snapshot>>

\* ----------------------------------- order_manager.py: close_order, 152-174
\* One iteration of the retry loop: the reduce-only create_order, then
\* log_trade, open_orders.remove and break. An exception from any of the three
\* lands in the same except branch: log, sleep and continue.
CloseAttempt ==
    /\ pc = "close"
    /\ \E res \in CreateResults :
       \E lg \in (IF res = "ack" THEN LogResults ELSE {"not_called"}) :
        LET order == closing[1]
            direction == IF order.direction = "buy" THEN "sell" ELSE "buy"
            logged == res = "ack" /\ lg = "ok"
            closed == logged /\ order \in Range(open_orders)
            ends == CloseLoopEnds(closed, attempt)
            op1 == [op EXCEPT !.calls = @ + 1,
                              !.at = Append(@, op.clock),
                              !.acks = IF res = "ack" THEN @ + 1 ELSE @,
                              !.accepted = IF res \in {"ack", "lost"} THEN @ + 1 ELSE @,
                              !.rows = IF logged THEN @ + 1 ELSE @,
                              !.clock = IF closed THEN @ ELSE CloseSleep(@),
                              !.done = ends]
        IN  /\ lastCall' = CreateCall(order.symbol, direction, TRUE, res, closing)
            /\ open_orders' = IF closed THEN RemoveFirst(open_orders, order) ELSE open_orders
            /\ op' = op1
            /\ recon' = IF caller = "run"
                        THEN [recon EXCEPT !.closeSubmitted = TRUE,
                                           !.close = IF ~ends THEN "none"
                                                     ELSE IF closed THEN "closed"
                                                     ELSE IF op1.acks > 0 THEN "failed_acked"
                                                     ELSE "failed"]
                        ELSE recon
            /\ mon' = NoMon
            /\ IF closed THEN ClockMayTick ELSE ClockTicks
            /\ IF ends
               THEN CloseReturn
               ELSE /\ attempt' = attempt + 1
                    /\ UNCHANGED <<pc, symIdx, new_signal, closing, caller, opening,
                                   snapshot, monIdx>>
    /\ UNCHANGED <<investment_amount, trained, reopened, calc>>

\* Mutant of the sweep: it iterates the list itself.
SweepOrders_Live == open_orders

\* for order in self.open_orders[:]: the sweep iterates the copy.
SweepOrders == snapshot

\* -------------------------------- order_manager.py: monitor_trades, 106-113
\* The exit check of the next order of the copy: fetch the ticker (outside any
\* try; a None price makes the comparison raise) and close on stop-loss or
\* take-profit.
MonitorCheck ==
    /\ pc = "monitor"
    /\ monIdx <= Len(SweepOrders)
    /\ \E r \in TickerResults :
        LET order == SweepOrders[monIdx]
        IN  /\ lastCall' = TickerCall(order.symbol, r)
            /\ IF r.raised \/ r.last = <<>>
               THEN /\ Abort
                    /\ op' = NoOp
                    /\ mon' = [NoMon EXCEPT !.order = <<order>>]
               ELSE IF ShouldClose(order, r.last[1])
               THEN /\ pc' = "close"
                    /\ closing' = <<order>>
                    /\ caller' = "monitor"
                    /\ attempt' = 0
                    /\ op' = StartOp("close", <<order>>)
                    /\ mon' = [NoMon EXCEPT !.order = <<order>>, !.price = r.last,
                                            !.invoked = TRUE]
                    /\ UNCHANGED <<symIdx, new_signal, opening, snapshot, monIdx>>
               ELSE /\ monIdx' = monIdx + 1
                    /\ op' = NoOp
                    /\ mon' = [NoMon EXCEPT !.order = <<order>>, !.price = r.last]
                    /\ UNCHANGED <<pc, symIdx, new_signal, closing, caller, opening,
                                   attempt, snapshot>>
    /\ recon' = NoRecon
    /\ ClockMayTick
    /\ UNCHANGED <<open_orders, investment_amount, trained, reopened, calc>>

\* ---------- order_manager.py 115 (show_open_trades) and bot.py 141-142 (sleep)
\* The sweep is over: the summary is logged (its own ticker fetches are inside a
\* try and change nothing), run sleeps and starts the next iteration.
EndCycle ==
    /\ pc = "monitor"
    /\ monIdx > Len(SweepOrders)
    /\ pc' = "acquire"
    /\ symIdx' = 1
    /\ snapshot' = <<>>
    /\ monIdx' = 1
    /\ lastCall' = NoCall
    /\ op' = NoOp
    /\ recon' = NoRecon
    /\ mon' = NoMon
    /\ reopened' = {}
    /\ ClockTicks
    /\ UNCHANGED <<new_signal, open_orders, investment_amount, trained, closing, caller,
                   opening, attempt, calc>>

Next ==
    \/ AcquireSignal
    \/ Reconcile
    \/ PlaceOrder
    \/ OpenAttempt
    \/ CloseAttempt
    \/ MonitorCheck
    \/ EndCycle

Spec == Init /\ [][Next]_vars

\* The loop under its scheduling: run is one thread that takes its next step
\* whenever it has one.
FairSpec == Spec /\ WF_vars(Next)

\* ------------------------ order_manager.py: place_order, 55-68 and 88-95
\* The sizing, the thresholds and the position record of place_order for a
\* range of configurations, prices and sides (the sizing example among them).
Investments == {1, 10, 20, 200}
Leverages == {1, 3, 5}
QuotePrices == {1, 7, 99, 110, 1000}
Percentages == {1, 10, 50, 99}

QuoteInit ==
    /\ Constructed
    /\ \E inv \in Investments, lev \in Leverages, price \in QuotePrices,
          sl \in Percentages, tp \in Percentages, signal \in {BUY, SELL} :
            calc = [done |-> FALSE, investment_amount |-> inv, leverage |-> lev,
                    current_price |-> price, sl_percentage |-> sl,
                    tp_percentage |-> tp, signal |-> signal]

Quote ==
    /\ ~calc.done
    /\ LET inv == AdjustWith(calc.investment_amount, calc.leverage, calc.current_price)
       IN  calc' = [calc EXCEPT !.done = TRUE] @@
                   [adjusted |-> inv,
                    order |-> NewOrderWith(format_symbol(symbols[1]), SideOf(calc.signal),
                                           inv, calc.current_price, calc.leverage,
                                           calc.sl_percentage, calc.tp_percentage)]
    /\ UNCHANGED <<progVars, histVars>>

QuoteNext == Quote

QuoteSpec == QuoteInit /\ [][QuoteNext]_vars

\* ------------------- order_manager.py: calculate_profit_percentage, 145-150
\* The profit percentage of the summary for a range of entry prices, current
\* prices and directions.
ProfitPrices == {1, 50, 90, 99, 100, 101, 110, 200}

ProfitInit ==
    /\ Constructed
    /\ \E entry \in ProfitPrices, current \in ProfitPrices, direction \in {"buy", "sell"} :
            calc = [done |-> FALSE, entry_price |-> entry, current_price |-> current,
                    direction |-> direction]

Profit ==
    /\ ~calc.done
    /\ calc' = [calc EXCEPT !.done = TRUE] @@
                [profit_percentage |->
                    calculate_profit_percentage(calc.entry_price, calc.current_price,
                                                calc.direction)]
    /\ UNCHANGED <<progVars, histVars>>

ProfitNext == Profit

ProfitSpec == ProfitInit /\ [][ProfitNext]_vars

\* ------------------------------- model.py: train_model and predict_signal
\* The Signal Source on its own, called in any order. A data argument is None,
\* an empty frame, or a frame as preprocess_data returns it: with every
\* indicator column and the Signal column, some rows, one or two signal classes.
MinTrainRows == 10
FrameRows == {1, 9, 10, 11, 50}

Frames ==
    {[kind |-> "none", rows |-> 0, classes |-> 0],
     [kind |-> "empty", rows |-> 0, classes |-> 0]}
        \cup {[kind |-> "frame", rows |-> r, classes |-> c] : r \in FrameRows, c \in 1..2}

\* RandomForestClassifier.fit, the assignment of n_features_ and
\* RandomForestClassifier.predict: each returns or raises.
FitResults == {"ok", "raise"}
SetResults == {"ok", "raise"}
PredictResults == {"1", "0", "raise"}

\* train_model returns True: the guards of lines 87-124 pass, fit and the
\* evaluation do not raise, and n_features_ is assigned.
TrainSucceeds(data, fit, set) ==
    /\ data.kind = "frame"
    /\ data.classes >= 2
    /\ data.rows >= MinTrainRows
    /\ fit = "ok"
    /\ set = "ok"

\* Mutant of predict_signal's guard: the model is taken as trained.
CanPredict_Unchecked(has_n_features) == TRUE

\* predict_signal lines 182-184: hasattr(self.model, 'n_features_').
CanPredict(has_n_features) == has_n_features

\* predict_signal: None without data, without a trained model or when the
\* prediction raises; else the prediction (the notifier catches its own errors).
predict_signal(data, has_n_features, prediction) ==
    IF data.kind # "frame" THEN None
    ELSE IF ~CanPredict(has_n_features) THEN None
    ELSE IF prediction = "raise" THEN None
    ELSE IF prediction = "1" THEN BUY ELSE SELL

SourceInit ==
    /\ Constructed
    /\ calc = [fn |-> "none", data |-> [kind |-> "none", rows |-> 0, classes |-> 0],
               env |-> <<>>, result |-> None, succeeded |-> FALSE]

TrainModel ==
    /\ \E data \in Frames, fit \in FitResults, set \in SetResults :
        LET ok == TrainSucceeds(data, fit, set)
        IN  /\ trained' = (trained \/ ok)
            /\ calc' = [fn |-> "train_model", data |-> data, env |-> <<fit, set>>,
                        result |-> <<ok>>, succeeded |-> (calc.succeeded \/ ok)]
    /\ UNCHANGED <<pc, symIdx, new_signal, open_orders, investment_amount, closing, caller,
                   opening, attempt, snapshot, monIdx, oid_second, histVars>>

PredictSignal ==
    /\ \E data \in Frames, prediction \in PredictResults :
        calc' = [fn |-> "predict_signal", data |-> data, env |-> <<prediction>>,
                 result |-> predict_signal(data, trained, prediction),
                 succeeded |-> calc.succeeded]
    /\ UNCHANGED <<progVars, histVars>>

SourceNext ==
    \/ TrainModel
    \/ PredictSignal

SourceSpec == SourceInit /\ [][SourceNext]_vars

\* ================================================================ claims
\* C1: when the close of a conflicting position failed on all 3 attempts, no
\* open is attempted for the symbol (no ticker fetch, no create_order) and the
\* Ledger holds the original position and nothing else for that symbol.
C1_NoOpenAfterFailedClose ==
    (recon.conflict /\ recon.close = "failed") =>
        /\ ~recon.openTicker
        /\ ~recon.openSubmitted
        /\ SelectSeq(open_orders, LAMBDA o : o.symbol = recon.existing[1].symbol)
                = recon.existing

\* C2: every reduce-only submission for the conflicting existing position comes
\* before any open submission for its symbol in the cycle, and the open is
\* placed in the new signal's direction.
C2_CloseBeforeOpen ==
    /\ (lastCall.kind = "create_order" /\ lastCall.reduceOnly) =>
            lastCall.order[1] \notin reopened
    /\ (lastCall.kind = "create_order" /\ ~lastCall.reduceOnly /\ recon.conflict) =>
            lastCall.side = (IF recon.signal = BUY THEN "buy" ELSE "sell")

\* C3: the Ledger never holds two positions with the same symbol and direction.
C3_NoDuplicatePair ==
    \A i, j \in 1..Len(open_orders) :
        (i # j /\ open_orders[i].symbol = open_orders[j].symbol) =>
            open_orders[i].direction # open_orders[j].direction

\* C3 witness: place_order was called for a symbol that already holds a
\* position in the signal's direction (beside the conflicting one) and returned
\* at its pre-check.
C3_Witness ==
    /\ recon.conflict
    /\ recon.close # "none"
    /\ ~recon.openTicker
    /\ pc \in {"acquire", "monitor"}
    /\ \E i \in 1..Len(open_orders) :
        /\ open_orders[i].symbol = recon.existing[1].symbol
        /\ open_orders[i].direction = (IF recon.signal = BUY THEN "buy" ELSE "sell")

\* C4: between operations a position is in the Ledger iff the exchange
\* acknowledged its open order and no reduce-only close order for it; stated
\* for the operation that has just returned: an acknowledged open has put the
\* position in the Ledger, an unacknowledged one has not, an acknowledged close
\* has taken it out (also when log_trade failed), an unacknowledged one has not.
C4_LedgerIffAcknowledged ==
    op.done =>
        IF op.kind = "open"
        THEN open_orders = (IF op.acks > 0 THEN Append(op.before, op.order[1]) ELSE op.before)
        ELSE (op.order[1] \in Range(open_orders)) = (op.acks = 0)

\* C5: a failing ticker fetch skips one position or symbol only; the run loop
\* is never aborted.
C5_LoopNeverAborts == pc # "aborted"

\* C6: an open whose create_order raised on every call made exactly 3 attempts,
\* consecutive ones at least 5 seconds apart, added no position and returned
\* normally.
C6_OpenRetryExhaustion ==
    (op.kind = "open" /\ op.done /\ op.acks = 0) =>
        /\ op.calls = 3
        /\ Len(op.at) = 3
        /\ \A k \in 1..(Len(op.at) - 1) : op.at[k + 1] - op.at[k] >= 5
        /\ open_orders = op.before
        /\ pc \in {"acquire", "monitor"}

C6_Witness == op.kind = "open" /\ op.done /\ op.acks = 0 /\ op.calls > 0

\* C7: a close whose create_order raised on every call made exactly 3 attempts,
\* wrote no Trade Record, left the position in the unchanged Ledger and
\* returned normally.
C7_CloseRetryExhaustion ==
    (op.kind = "close" /\ op.done /\ op.acks = 0) =>
        /\ op.calls = 3
        /\ op.rows = 0
        /\ open_orders = op.before
        /\ op.order[1] \in Range(open_orders)
        /\ pc \in {"place_order", "monitor"}

C7_Witness == op.kind = "close" /\ op.done /\ op.acks = 0 /\ op.calls > 0

\* C8: a close whose reduce-only order was acknowledged has written exactly one
\* Trade Record and removed exactly that position; rows written and positions
\* removed are always equal in number.
C8_OneRecordPerClose ==
    /\ (op.kind = "close" /\ op.done /\ op.acks > 0) =>
            /\ op.rows = 1
            /\ op.order[1] \in Range(op.before)
            /\ open_orders = RemoveFirst(op.before, op.order[1])
    /\ op.kind = "close" => op.rows = Len(op.before) - Len(open_orders)

\* C9: reconciling a symbol whose existing position agrees with the signal
\* submits no create_order, fetches the ticker at most once and leaves the
\* Ledger unchanged.
C9_AgreeingSignalHolds ==
    (/\ recon.existing # <<>>
     /\ \/ (recon.existing[1].direction = "buy" /\ recon.signal = BUY)
        \/ (recon.existing[1].direction = "sell" /\ recon.signal = SELL)) =>
        /\ ~recon.openSubmitted
        /\ ~recon.closeSubmitted
        /\ ~recon.openTicker
        /\ recon.tickers <= 1
        /\ open_orders = recon.before
        /\ pc \notin {"open", "close", "place_order"}

C9_Witness ==
    /\ recon.existing # <<>>
    /\ recon.existing[1].direction = "buy"
    /\ recon.signal = BUY
    /\ lastCall.kind = "fetch_ticker"
    /\ lastCall.ok
    /\ pc \in {"acquire", "monitor"}

\* C10: the sweep invokes close for a position iff, LONG: price <= stop-loss or
\* price >= take-profit; SHORT: price >= stop-loss or price <= take-profit
\* (bounds included); otherwise no close and no create_order.
C10_ExitTrigger ==
    (mon.order # <<>> /\ mon.price # <<>>) =>
        LET o == mon.order[1]
            price == ToRat(mon.price[1])
            due == IF o.direction = "buy"
                   THEN Leq(price, o.stop_loss_price) \/ Leq(o.take_profit_price, price)
                   ELSE Leq(o.stop_loss_price, price) \/ Leq(price, o.take_profit_price)
        IN  /\ mon.invoked = due
            /\ mon.invoked => (pc = "close" /\ closing = mon.order /\ caller = "monitor")
            /\ ~mon.invoked => (pc # "close" /\ lastCall.kind = "fetch_ticker")

\* C10 witness: a LONG position checked at exactly its stop-loss price is closed.
C10_Witness ==
    /\ mon.order # <<>>
    /\ mon.price # <<>>
    /\ mon.order[1].direction = "buy"
    /\ ToRat(mon.price[1]) = mon.order[1].stop_loss_price
    /\ mon.invoked

\* C11: the symbol loop advances one symbol at a time in configured order and
\* only when no retry loop is unfinished; the sweep starts only from the last
\* symbol, on a copy of the Ledger, and is left only for the next cycle once
\* every order of the copy has been checked (one sweep per cycle, then the sleep).
C11_SymbolsThenSweep ==
    [][/\ (symIdx' # symIdx) =>
            \/ (symIdx' = symIdx + 1 /\ pc' = "acquire")
            \/ (symIdx = Len(symbols) /\ symIdx' = 1 /\ pc' = "monitor")
       /\ (pc \in {"open", "close"} /\ pc' \in {"acquire", "monitor"}) => op'.done
       /\ (pc = "close" /\ caller = "run") => (symIdx' = symIdx /\ pc' \in {"close", "place_order"})
       /\ (pc \in {"acquire", "reconcile", "place_order", "open"} /\ pc' = "monitor") =>
            /\ symIdx = Len(symbols)
            /\ monIdx' = 1
            /\ snapshot' = open_orders'
       /\ (pc \in {"acquire", "reconcile", "place_order", "open"}) =>
            pc' \in {"acquire", "reconcile", "place_order", "open", "close", "monitor", "aborted"}
                /\ (pc' = "close" => caller' = "run")
       /\ (pc = "monitor" \/ (pc = "close" /\ caller = "monitor")) =>
            /\ pc' \in {"monitor", "close", "acquire", "aborted"}
            /\ pc' = "close" => caller' = "monitor"
            /\ pc' \in {"monitor", "close"} =>
                    (snapshot' = snapshot /\ monIdx' \in {monIdx, monIdx + 1})
            /\ pc' = "acquire" =>
                    (pc = "monitor" /\ monIdx > Len(snapshot) /\ symIdx' = 1)
      ]_vars

\* C11 witness: a sweep over two positions has checked both; the sleep is next.
C11_Witness ==
    /\ pc = "monitor"
    /\ Len(snapshot) = 2
    /\ monIdx > Len(snapshot)

\* C12: after an acquisition without a signal (no data, preprocessing or
\* training failure, prediction None) no exchange call was made for the symbol,
\* the Ledger is as before, and the loop is at the next symbol or at the start
\* of the sweep.
C12_NoSignalNoAction ==
    recon.source \in {"no_data", "preprocess_failed", "train_failed", "predict_none"} =>
        /\ lastCall = NoCall
        /\ recon.tickers = 0
        /\ ~recon.openSubmitted
        /\ ~recon.closeSubmitted
        /\ open_orders = recon.before
        /\ pc \in {"acquire", "monitor"}
        /\ pc = "acquire" => symIdx > 1
        /\ pc = "monitor" => (monIdx = 1 /\ snapshot = open_orders)

\* C12 witness: training failed for the last symbol while a position is open,
\* and the sweep is about to run.
C12_Witness ==
    /\ recon.source = "train_failed"
    /\ open_orders # <<>>
    /\ pc = "monitor"

\* C13: at the start of every cycle config['investment_amount'] has its
\* startup value (leverage and the percentages are never assigned).
C13_ConfigurationUnchanged ==
    (pc = "acquire" /\ symIdx = 1) => investment_amount = initial_investment_amount

\* C14: if (investment_amount * leverage) / current_price < 1, the investment
\* becomes ceil(current_price / leverage) (else it is kept), order_size is
\* computed from it, and order_size >= 1; investment 10, leverage 5, price 1000
\* gives investment 200 and order_size 1.
C14_SizingCorrection ==
    calc.done =>
        LET inv == calc.investment_amount
            lev == calc.leverage
            price == calc.current_price
            size == calc.order.order_size
        IN  /\ (inv * lev < price) =>
                    /\ calc.adjusted * lev >= price
                    /\ (calc.adjusted - 1) * lev < price
            /\ (inv * lev >= price) => calc.adjusted = inv
            /\ size.n * price = calc.adjusted * lev * size.d
            /\ size.n >= size.d
            /\ (inv = 10 /\ lev = 5 /\ price = 1000) =>
                    (calc.adjusted = 200 /\ size = [n |-> 1, d |-> 1])

\* C14 witness: the sizing example, corrected.
C14_Witness ==
    /\ calc.done
    /\ calc.investment_amount = 10
    /\ calc.leverage = 5
    /\ calc.current_price = 1000
    /\ calc.adjusted # calc.investment_amount

\* C15: the position place_order builds has stop-loss < entry < take-profit
\* when LONG and take-profit < entry < stop-loss when SHORT.
C15_ThresholdOrder ==
    calc.done =>
        LET o == calc.order
            entry == ToRat(o.entry_price)
        IN  IF o.direction = "buy"
            THEN Less(o.stop_loss_price, entry) /\ Less(entry, o.take_profit_price)
            ELSE Less(o.take_profit_price, entry) /\ Less(entry, o.stop_loss_price)

\* C15 witness: a SHORT position built with different percentages.
C15_Witness ==
    /\ calc.done
    /\ calc.order.direction = "sell"
    /\ calc.sl_percentage = 1
    /\ calc.tp_percentage = 99

\* C16: no open operation submits a create_order under the client_oid of the
\* open operation before it.
C16_UniqueClientOid ==
    (lastCall.kind = "create_order" /\ ~lastCall.reduceOnly) => ~op.oidReused

\* C17: for a symbol without a position and a BUY or SELL signal the
\* reconciliation attempts an open (it fetches the ticker, it closes nothing);
\* the first acknowledged create_order ends the operation, and the Ledger is
\* then the one before plus one position of the signal's direction, with the
\* fetched ticker price as entry_price and
\* (investment_amount * leverage) / entry_price as order_size.
C17_OpenWithoutPosition ==
    (/\ recon.signal # None
     /\ SelectSeq(recon.before, LAMBDA o : o.symbol = recon.symbol) = <<>>) =>
        /\ pc \in {"acquire", "monitor"} => recon.openTicker
        /\ ~recon.closeSubmitted
        /\ (op.kind = "open" /\ op.acks > 0) =>
            /\ op.done
            /\ op.acks = 1
            /\ lastCall.kind = "create_order" /\ lastCall.ok /\ ~lastCall.reduceOnly
            /\ lastCall.side = (IF recon.signal = BUY THEN "buy" ELSE "sell")
            /\ Len(open_orders) = Len(recon.before) + 1
            /\ SubSeq(open_orders, 1, Len(recon.before)) = recon.before
            /\ LET o == open_orders[Len(open_orders)]
               IN  /\ o.symbol = recon.symbol
                   /\ o.direction = (IF recon.signal = BUY THEN "buy" ELSE "sell")
                   /\ o.entry_price = op.price[1]
                   /\ o.order_size.n * o.entry_price
                        = investment_amount * leverage * o.order_size.d

\* C17 witness: a SELL for a symbol without a position, acknowledged on the
\* second create_order.
C17_Witness ==
    /\ recon.signal = SELL
    /\ SelectSeq(recon.before, LAMBDA o : o.symbol = recon.symbol) = <<>>
    /\ op.kind = "open"
    /\ op.calls = 2
    /\ op.acks = 1

\* C18: place_order called while the Ledger holds a position of the symbol in
\* the signal's direction returns without an exchange call and changes neither
\* the Ledger nor investment_amount.
C18_PreCheckReturns ==
    [][(/\ pc = "place_order"
        /\ \E i \in 1..Len(open_orders) :
            /\ open_orders[i].symbol = recon.symbol
            /\ open_orders[i].direction = (IF new_signal = BUY THEN "buy" ELSE "sell")) =>
            /\ lastCall' = NoCall
            /\ op' = NoOp
            /\ open_orders' = open_orders
            /\ investment_amount' = investment_amount
            /\ pc' \in {"acquire", "monitor"}
      ]_vars

\* C18 witness: place_order has returned at its pre-check: the close of the
\* conflicting first position failed, and the symbol's second position has the
\* signal's direction.
C18_Witness ==
    /\ recon.conflict
    /\ recon.close = "failed"
    /\ ~recon.openTicker
    /\ lastCall = NoCall
    /\ pc \in {"acquire", "monitor"}
    /\ Len(SelectSeq(open_orders, LAMBDA o : o.symbol = recon.symbol)) = 2

\* C19: when place_order's ticker fetch raised or returned no price, no
\* create_order was submitted, no position was added, and run goes on.
C19_OpenTickerFailureSkips ==
    recon.openTickerFailed =>
        /\ ~recon.openSubmitted
        /\ op.kind # "open"
        /\ lastCall.kind = "fetch_ticker"
        /\ open_orders = (IF recon.close = "closed"
                          THEN RemoveFirst(recon.before, recon.existing[1])
                          ELSE recon.before)
        /\ pc \in {"acquire", "monitor"}

\* C19 witness: the ticker came back without a 'last' price.
C19_Witness ==
    /\ recon.openTickerFailed
    /\ lastCall.kind = "fetch_ticker"
    /\ lastCall.ok

\* C20: after a close that exhausted its retries the loop reaches a later
\* cycle (in which the position, still in the Ledger, can be retried).
C20_FailedCloseRetried ==
    (op.kind = "close" /\ op.done /\ op.acks = 0) ~> (pc = "acquire" /\ symIdx = 1)

\* C21: an open operation resubmits after every client-side failure short of
\* its last attempt, whether or not the exchange had accepted the order; the
\* exchange may so have accepted more orders than the one position the Ledger
\* gains, which it gains only with the acknowledgement.
C21_NotExactlyOnce ==
    op.kind = "open" =>
        /\ op.acks <= op.accepted
        /\ op.accepted <= op.calls
        /\ op.acks <= 1
        /\ Len(open_orders) - Len(op.before) = op.acks
        /\ ~op.done => pc = "open"
        /\ op.done => (op.acks = 1 \/ op.calls = 3)

\* C21 witness: the exchange accepted more than one order of an open operation
\* whose Ledger holds at most one position for it.
C21_Witness ==
    /\ op.kind = "open"
    /\ op.accepted > 1
    /\ Len(open_orders) - Len(op.before) <= 1

\* C22: predict_signal called before any train_model call has succeeded
\* returns None; a BUY or SELL comes only after one has.
C22_NoneUntilTrained ==
    calc.fn = "predict_signal" =>
        /\ ~calc.succeeded => calc.result = None
        /\ calc.result \in {BUY, SELL} => calc.succeeded

\* C22 witness: a prediction asked on a well-formed frame before any training
\* succeeded, the classifier itself ready to answer.
C22_Witness ==
    /\ calc.fn = "predict_signal"
    /\ ~calc.succeeded
    /\ calc.data.kind = "frame"
    /\ calc.env = <<"1">>

\* C23: the profit percentage is (current - entry) / entry * 100 for a buy and
\* (entry - current) / entry * 100 for a sell, positive exactly when the price
\* moved in the position's favour; SHORT from 100: +10 at 90, -10 at 110.
C23_ProfitPercentage ==
    calc.done =>
        LET entry == calc.entry_price
            current == calc.current_price
            p == calc.profit_percentage
        IN  /\ p.d > 0
            /\ calc.direction = "buy" => p.n * entry = (current - entry) * 100 * p.d
            /\ calc.direction = "sell" => p.n * entry = (entry - current) * 100 * p.d
            /\ (p.n > 0) = (IF calc.direction = "buy" THEN current > entry
                                                        ELSE current < entry)
            /\ (calc.direction = "sell" /\ entry = 100 /\ current = 90) =>
                    p = [n |-> 10, d |-> 1]
            /\ (calc.direction = "sell" /\ entry = 100 /\ current = 110) =>
                    p = [n |-> 0 - 10, d |-> 1]

\* C23 witness: a SHORT position whose price rose shows a loss.
C23_Witness ==
    /\ calc.done
    /\ calc.direction = "sell"
    /\ calc.entry_price = 100
    /\ calc.current_price = 110
    /\ calc.profit_percentage.n < 0

\* C24: once a train_model call has succeeded, no later pass of the symbol
\* loop is skipped for a training failure.
C24_NoTrainingOnceTrained ==
    recon.source = "train_failed" => ~trained

\* C25: the Ledger holds at most one position per symbol.
C25_OnePositionPerSymbol ==
    \A i, j \in 1..Len(open_orders) :
        i # j => open_orders[i].symbol # open_orders[j].symbol

\* C26: a close operation has at most one acknowledged reduce-only order.
C26_OneAcknowledgedClose ==
    op.kind = "close" => op.acks <= 1

\* C27: the create_order calls of one open operation carry the same clientOid,
\* side, amount and leverage; price, size and thresholds are those computed
\* from the operation's one ticker fetch, and no ticker is fetched between the
\* attempts.
C27_OneQuotePerOpen ==
    op.kind = "open" =>
        /\ Cardinality(op.sent) <= 1
        /\ op.order[1].entry_price = op.price[1]
        /\ pc = "open" => opening = op.order
        /\ op.calls > 0 =>
            /\ lastCall.kind = "create_order"
            /\ \A s \in op.sent :
                /\ s.side = op.order[1].direction
                /\ s.amount = op.order[1].order_size
                /\ s.amount.n * op.price[1] = investment_amount * leverage * s.amount.d
                /\ s.leverage = leverage
        /\ op.acks > 0 => open_orders[Len(open_orders)] = op.order[1]

\* C27 witness: three attempts of one open operation, one set of parameters.
C27_Witness ==
    /\ op.kind = "open"
    /\ op.calls = 3
    /\ Cardinality(op.sent) = 1

\* C28: the sweep starts on a copy of the Ledger as it is after the symbol
\* loop; it checks the copy's positions one by one in order, each with one
\* ticker fetch and at most one close operation, a close removing nothing but
\* its own position; the copy never changes, and the sweep ends only when all
\* of it has been checked.
C28_SweepOnSnapshot ==
    [][/\ (pc \in {"acquire", "reconcile", "place_order", "open"} /\ pc' = "monitor") =>
            (snapshot' = open_orders' /\ monIdx' = 1)
       /\ (pc = "monitor" /\ pc' # "acquire") =>
            /\ monIdx <= Len(snapshot)
            /\ snapshot' = snapshot
            /\ open_orders' = open_orders
            /\ lastCall'.kind = "fetch_ticker"
            /\ lastCall'.symbol = snapshot[monIdx].symbol
            /\ \/ (pc' = "monitor" /\ monIdx' = monIdx + 1)
               \/ (pc' = "close" /\ caller' = "monitor" /\ monIdx' = monIdx
                        /\ closing' = <<snapshot[monIdx]>>)
               \/ (pc' = "aborted" /\ monIdx' = monIdx)
       /\ (pc = "close" /\ caller = "monitor") =>
            /\ snapshot' = snapshot
            /\ closing = <<snapshot[monIdx]>>
            /\ lastCall'.kind = "create_order"
            /\ open_orders' \in {open_orders, RemoveFirst(open_orders, closing[1])}
            /\ \/ (pc' = "close" /\ monIdx' = monIdx /\ closing' = closing)
               \/ (pc' = "monitor" /\ monIdx' = monIdx + 1 /\ op'.done)
       /\ (pc = "monitor" /\ pc' = "acquire") => monIdx > Len(snapshot)
      ]_vars

\* C28 witness: the first position of the copy was closed and removed, and the
\* second has had its check.
C28_Witness ==
    /\ pc = "monitor"
    /\ Len(snapshot) = 2
    /\ monIdx = 3
    /\ snapshot[1] \notin Range(open_orders)
    /\ mon.order = <<snapshot[2]>>
    /\ mon.price # <<>>

====
